---- MODULE Spec2Model ----
(***************************************************************************)
(* Model of http_monitor: the log-line parser (parseLogLine), the traffic  *)
(* statistics (stats.updateStats, stats.updateAlerting, getDelta,          *)
(* getQueryRate, dumpTopSections) and the two actors of main: the          *)
(* ingestion loop and the reporter goroutine, serialised by one mutex.     *)
(* Timestamps are whole seconds (the log format has second resolution), a  *)
(* float64 rate n/delta is kept as the exact fraction <<n, delta>>.        *)
(***************************************************************************)
EXTENDS Integers, Sequences, FiniteSets, TLC

VARIABLES
  qpsThreshold,       \* flag -qps
  topN,               \* flag -top
  httpResponseCodes,  \* stats.httpResponseCodes : map[string]int
  sectionCounts,      \* stats.sectionCounts     : map[string]int
  logsInWindow,       \* stats.logsInWindow, the Timestamp of each record
  alerting,           \* stats.alerting
  mutex,              \* "free", or the actor holding it
  mainPc,             \* position of the ingestion loop
  parsedLog,          \* the record the ingestion loop is about to ingest
  repPc,              \* position of the reporter goroutine
  repAlerting,        \* the reporter's local variable `alerting`
  topListing,         \* sections printed by the last dumpTopSections
  message,            \* transition message printed by the last report
  delivered,          \* history: lines taken from t.Lines
  ingested,           \* history: completed updateStats calls
  ordered,            \* history: timestamps arrived in non-decreasing order
  alertingBefore,     \* history: stats.alerting before the last updateStats
  lastParse,          \* history: last parseLogLine call, input match and outcome
  seenPrev,           \* history: stats.alerting read by the previous report
  seenCur,            \* history: stats.alerting read by the last report
  dumpedCounts,       \* history: stats.sectionCounts at the last dumpTopSections
  printedQps,         \* rate printed by the last "firing" message
  usedQps,            \* history: rate the last updateAlerting decided on
  arrived,            \* history: Timestamp of every record ingested, in order
  inlineWindow,       \* logsInWindow under updateAlerting of http_monitor.go
  inlineFailed,       \* that updateAlerting indexed out of range
  inlineAlerting,     \* stats.alerting under updateAlerting of http_monitor.go
  queried             \* history: last direct getQueryRate call, both results

vars == <<qpsThreshold, topN, httpResponseCodes, sectionCounts, logsInWindow,
          alerting, mutex, mainPc, parsedLog, repPc, repAlerting, topListing,
          message, delivered, ingested, ordered, alertingBefore, lastParse,
          seenPrev, seenCur, dumpedCounts, printedQps, usedQps, arrived,
          inlineWindow, inlineFailed, inlineAlerting, queried>>

statsVars == <<httpResponseCodes, sectionCounts, logsInWindow, alerting>>
flagVars == <<qpsThreshold, topN>>
histVars == <<usedQps, arrived, inlineWindow, inlineFailed, inlineAlerting, queried>>
mainVars == <<mainPc, parsedLog, delivered, ingested, ordered, alertingBefore,
              lastParse, histVars>>
repVars == <<repPc, repAlerting, topListing, message, seenPrev, seenCur,
             dumpedCounts, printedQps>>

----------------------------------------------------------------------------
(* Bounds *)

MaxLines == 3        \* lines delivered to the concurrent program
MaxRecords == 5      \* records fed to the sequential monitor
MaxTopN == 3         \* largest -top flag value tried

(* Program constants *)

WindowSeconds == 120

----------------------------------------------------------------------------
(* Text helpers *)

DigitChars == <<"0", "1", "2", "3", "4", "5", "6", "7", "8", "9">>
Digits == {DigitChars[i] : i \in 1..10}
DigitVal(c) == (CHOOSE i \in 1..10 : DigitChars[i] = c) - 1

RECURSIVE DecVal(_)
DecVal(s) ==
  IF s = <<>> THEN 0
  ELSE 10 * DecVal(SubSeq(s, 1, Len(s) - 1)) + DigitVal(s[Len(s)])

\* strconv.Atoi: an optional sign followed by at least one digit
Atoi(s) ==
  LET signed == s # <<>> /\ s[1] \in {"-", "+"}
      body == IF signed THEN Tail(s) ELSE s
  IN IF body = <<>> \/ \E i \in 1..Len(body) : body[i] \notin Digits
       THEN [ok |-> FALSE, val |-> 0]
       ELSE [ok |-> TRUE,
             val |-> IF signed /\ s[1] = "-" THEN 0 - DecVal(body) ELSE DecVal(body)]

\* fmt.Sprintf("%d", n) for n >= 0
RECURSIVE Itoa(_)
Itoa(n) ==
  IF n < 10 THEN <<DigitChars[n + 1]>>
  ELSE Append(Itoa(n \div 10), DigitChars[(n % 10) + 1])

----------------------------------------------------------------------------
(* parseLogLine *)

Methods == {"GET", "POST", "PUT", "HEAD", "DELETE", "OPTIONS"}

\* logLineRegExp on the fields of a line. A line is
\* [ts, method, section, status, size]; ts.fmt says whether the bracketed text
\* has the shape \d{2}/Mon/\d{4}:\d{2}:\d{2}:\d{2} [+-]\d{4}, status and size
\* are sequences of characters.
logLineRegExp(line) ==
  /\ line.ts.fmt
  /\ line.method \in Methods
  /\ Len(line.status) = 3
  /\ \A i \in 1..Len(line.status) : line.status[i] \in Digits
  /\ Len(line.size) >= 1
  /\ \A i \in 1..Len(line.size) : line.size[i] \in Digits \cup {"-"}

NoRecord == [Timestamp |-> 0, Action |-> "", Section |-> "", StatusCode |-> 0, Size |-> 0]

parseLogLine(line) ==
  IF ~logLineRegExp(line)
    THEN [outcome |-> "panic", rec |-> NoRecord]
  ELSE IF ~line.ts.valid
    THEN [outcome |-> "error", rec |-> NoRecord]
  ELSE IF ~Atoi(line.status).ok
    THEN [outcome |-> "error", rec |-> NoRecord]
  ELSE [outcome |-> "record",
        rec |-> [Timestamp  |-> line.ts.instant,
                 Action     |-> line.method,
                 Section    |-> line.section,
                 StatusCode |-> Atoi(line.status).val,
                 Size       |-> IF Atoi(line.size).ok THEN Atoi(line.size).val ELSE 0]]

----------------------------------------------------------------------------
(* stats *)

FiveKeys == {"1XX", "2XX", "3XX", "4XX", "5XX"}

\* m[k]++ on a Go map: a missing key counts from zero
MapInc(m, k) ==
  [x \in DOMAIN m \cup {k} |-> IF x = k THEN (IF k \in DOMAIN m THEN m[k] + 1 ELSE 1)
                                        ELSE m[x]]

RECURSIVE MapSum(_)
MapSum(m) ==
  IF DOMAIN m = {} THEN 0
  ELSE LET k == CHOOSE x \in DOMAIN m : TRUE
       IN m[k] + MapSum([x \in DOMAIN m \ {k} |-> m[x]])

\* the class taken from the last digit of the status code
responseCode_LastDigit(log) == DigitChars[(log.StatusCode % 10) + 1] \o "XX"

\* fmt.Sprintf("%cXX", fmt.Sprintf("%d", log.StatusCode)[0])
responseCode(log) == Itoa(log.StatusCode)[1] \o "XX"

getDelta(w) == IF Len(w) > 0 THEN w[Len(w)] - w[1] ELSE 0

\* the eviction condition with the span taken in minutes
NeedsEvict_Minutes(w) == Len(w) > 0 /\ getDelta(w) \div 60 > WindowSeconds

\* the eviction condition with >= in place of >
NeedsEvict_AtLeast(w) == Len(w) > 0 /\ getDelta(w) >= WindowSeconds

\* condition of the eviction loop of updateAlerting
NeedsEvict(w) == Len(w) > 0 /\ getDelta(w) > WindowSeconds

\* the pop taken at the wrong end: s.logsInWindow[:n-1]
PopFront_Back(w) == SubSeq(w, 1, Len(w) - 1)

\* the pop that restarts the window instead of dropping its first entry
PopFront_Reset(w) == SubSeq(w, 1, 0)

\* s.logsInWindow = s.logsInWindow[1:]
PopFront(w) == Tail(w)

RECURSIVE EvictLoop(_)
EvictLoop(w) == IF NeedsEvict(w) THEN EvictLoop(PopFront(w)) ELSE w

\* the loop of updateAlerting in http_monitor.go: n and delta are kept in
\* locals, delta is recomputed after each pop as logsInWindow[n-1] - logsInWindow[0],
\* which is out of range when n has reached 0
RECURSIVE inlineLoop(_, _, _)
inlineLoop(w, n, delta) ==
  IF n > 0 /\ delta > WindowSeconds
    THEN LET w2 == PopFront(w)
             n2 == n - 1
         IN IF n2 < 1 \/ n2 > Len(w2)
              THEN [failed |-> TRUE, w |-> w2]
              ELSE inlineLoop(w2, n2, w2[n2] - w2[1])
    ELSE [failed |-> FALSE, w |-> w]

\* the loop that keeps the delta computed before it: no recomputation after a pop
inlineUpdateAlerting_StaleDelta(w, log) ==
  LET a == Append(w, log.Timestamp)
  IN IF a[Len(a)] - a[1] > WindowSeconds
       THEN [failed |-> FALSE, w |-> SubSeq(a, 1, 0)]
       ELSE [failed |-> FALSE, w |-> a]

inlineUpdateAlerting(w, log) ==
  LET a == Append(w, log.Timestamp)
  IN inlineLoop(a, Len(a), a[Len(a)] - a[1])

\* getQueryRate: float64(n) / delta as the fraction <<num, den>>; den = 0 is
\* the float +Inf (n > 0), den < 0 a negative rate
getQueryRate(w) ==
  IF Len(w) > 0
    THEN [err |-> FALSE, num |-> Len(w), den |-> w[Len(w)] - w[1]]
    ELSE [err |-> TRUE, num |-> 1, den |-> 0]

\* getQueryRate of http_monitor.go: 0.0 alongside the error on an empty window
inlineGetQueryRate(w) ==
  IF Len(w) > 0
    THEN [err |-> FALSE, num |-> Len(w), den |-> w[Len(w)] - w[1]]
    ELSE [err |-> TRUE, num |-> 0, den |-> 1]

\* the comparison with >= in place of >
RateExceeds_AtLeast(q, thr) ==
  IF q.den = 0 THEN TRUE
  ELSE IF q.den > 0 THEN q.num >= thr * q.den
  ELSE q.num <= thr * q.den

\* qps > *qpsThreshold on float64
RateExceeds(q, thr) ==
  IF q.den = 0 THEN TRUE
  ELSE IF q.den > 0 THEN q.num > thr * q.den
  ELSE q.num < thr * q.den

\* the decision that only ever sets the flag
AlertDecision_Latch(old, w, thr) ==
  IF getQueryRate(w).err THEN old ELSE (old \/ RateExceeds(getQueryRate(w), thr))

\* if qps, err := s.getQueryRate(); err == nil { s.alerting = qps > threshold }
AlertDecision(old, w, thr) ==
  IF getQueryRate(w).err THEN old ELSE RateExceeds(getQueryRate(w), thr)

\* the same statement in http_monitor.go, on its own getQueryRate
inlineAlertDecision(old, w, thr) ==
  IF inlineGetQueryRate(w).err THEN old ELSE RateExceeds(inlineGetQueryRate(w), thr)

NotQueried == [called |-> FALSE, plusInf |-> getQueryRate(<<>>),
               zero |-> inlineGetQueryRate(<<>>)]

----------------------------------------------------------------------------
(* dumpTopSections *)

Min(a, b) == IF a < b THEN a ELSE b

\* sort.Slice(counts, func(i, j) { return counts[i].count > counts[j].count })
\* over the pairs collected by ranging over the map: every arrangement of the
\* sections that the comparison leaves in order; sections with equal counts
\* come out in any order (map iteration order, unstable sort).
sortSlice(sc) ==
  LET n == Cardinality(DOMAIN sc)
  IN {p \in [1..n -> DOMAIN sc] :
        /\ \A i, j \in 1..n : i # j => p[i] # p[j]
        /\ \A i, j \in 1..n : i < j => ~(sc[p[j]] > sc[p[i]])}

\* the print loop breaking at i > n
printTop_OneMore(counts, n) ==
  IF n < 0 THEN <<>> ELSE SubSeq(counts, 1, Min(n + 1, Len(counts)))

\* for i, v := range counts { if i >= n { break }; print v }
printTop(counts, n) ==
  IF n <= 0 THEN <<>> ELSE SubSeq(counts, 1, Min(n, Len(counts)))

dumpTopSections(sc, n) == {printTop(p, n) : p \in sortSlice(sc)}

----------------------------------------------------------------------------
(* Input lines *)

DefaultQps == 10
DefaultTopN == 5

GoodTs(t) == [fmt |-> TRUE, valid |-> TRUE, instant |-> t]
BadDate == [fmt |-> TRUE, valid |-> FALSE, instant |-> 0]   \* e.g. 31/Feb/2019

Line(ts, method, section, status, size) ==
  [ts |-> ts, method |-> method, section |-> section, status |-> status, size |-> size]

Accepted(lines) ==
  {parseLogLine(l).rec : l \in {x \in lines : parseLogLine(x).outcome = "record"}}

\* lines tailed by the concurrent program
ConcLines ==
  {Line(GoodTs(t), "GET", f[1], f[2], <<"5">>) :
      t \in {0, 1, WindowSeconds + 1},
      f \in {<<"/api", <<"2", "0", "0">>>>, <<"/report", <<"6", "0", "0">>>>}}
  \cup {Line(GoodTs(0), "PATCH", "/api", <<"2", "0", "0">>, <<"5">>),
        Line(BadDate, "GET", "/api", <<"2", "0", "0">>, <<"-">>)}

\* records of the sequential window/alerting runs
SeqTimes == {0, 1, 2, WindowSeconds, WindowSeconds + 1, WindowSeconds + 2}
SeqRecords ==
  Accepted({Line(GoodTs(t), "GET", "/api", <<"2", "0", "0">>, <<"5">>) : t \in SeqTimes})

\* records of the sequential top-N runs
TopRecords ==
  Accepted({Line(GoodTs(0), "GET", sec, <<"2", "0", "0">>, <<"5">>) :
              sec \in {"/api", "/report", "/"}})

----------------------------------------------------------------------------
(* State after construction in main *)

InitWith(qpsValues, topValues) ==
  /\ qpsThreshold \in qpsValues
  /\ topN \in topValues
  /\ httpResponseCodes = [k \in FiveKeys |-> 0]
  /\ sectionCounts = [k \in {} |-> 0]
  /\ logsInWindow = <<>>
  /\ alerting = FALSE
  /\ mutex = "free"
  /\ mainPc = "recv"
  /\ parsedLog = NoRecord
  /\ repPc = "start"
  /\ repAlerting = FALSE
  /\ topListing = <<>>
  /\ message = "none"
  /\ delivered = 0
  /\ ingested = 0
  /\ ordered = TRUE
  /\ alertingBefore = FALSE
  /\ lastParse = [called |-> FALSE, matched |-> FALSE, outcome |-> "none"]
  /\ seenPrev = "none"
  /\ seenCur = "none"
  /\ dumpedCounts = [k \in {} |-> 0]
  /\ printedQps = getQueryRate(<<>>)
  /\ usedQps = getQueryRate(<<>>)
  /\ arrived = <<>>
  /\ inlineWindow = <<>>
  /\ inlineFailed = FALSE
  /\ inlineAlerting = FALSE
  /\ queried = NotQueried

Init == InitWith({1, DefaultQps}, {DefaultTopN})

Running == mainPc # "panicked"

----------------------------------------------------------------------------
(* Ingestion loop of main, one step per statement of updateStats *)

\* for line := range t.Lines { parsedLog, err := parseLogLine(line.Text);
\*                             if err != nil { log.Panicf(...) }
MainParse(line) ==
  /\ Running /\ mainPc = "recv" /\ delivered < MaxLines
  /\ delivered' = delivered + 1
  /\ lastParse' = [called |-> TRUE, matched |-> logLineRegExp(line),
                   outcome |-> parseLogLine(line).outcome]
  /\ \/ /\ parseLogLine(line).outcome = "record"
        /\ parsedLog' = parseLogLine(line).rec
        /\ mainPc' = "lock"
     \/ /\ parseLogLine(line).outcome # "record"
        /\ parsedLog' = parsedLog
        /\ mainPc' = "panicked"
  /\ UNCHANGED <<flagVars, statsVars, mutex, repVars, ingested, ordered, alertingBefore,
                 histVars>>

MainLock ==
  /\ Running /\ mainPc = "lock" /\ mutex = "free"
  /\ mutex' = "main"
  /\ mainPc' = "codes"
  /\ UNCHANGED <<flagVars, statsVars, repVars, parsedLog, delivered, ingested,
                 ordered, alertingBefore, lastParse,
                 histVars>>

\* s.httpResponseCodes[responseCode]++
MainIncCode ==
  /\ Running /\ mainPc = "codes"
  /\ httpResponseCodes' = MapInc(httpResponseCodes, responseCode(parsedLog))
  /\ mainPc' = "sections"
  /\ UNCHANGED <<flagVars, sectionCounts, logsInWindow, alerting, mutex, repVars,
                 parsedLog, delivered, ingested, ordered, alertingBefore, lastParse,
                 histVars>>

\* s.sectionCounts[log.Section]++
MainIncSection ==
  /\ Running /\ mainPc = "sections"
  /\ sectionCounts' = MapInc(sectionCounts, parsedLog.Section)
  /\ mainPc' = "append"
  /\ UNCHANGED <<flagVars, httpResponseCodes, logsInWindow, alerting, mutex, repVars,
                 parsedLog, delivered, ingested, ordered, alertingBefore, lastParse,
                 histVars>>

InOrder(w, log) == w = <<>> \/ log.Timestamp >= w[Len(w)]

\* s.logsInWindow = append(s.logsInWindow, log)
MainAppend ==
  /\ Running /\ mainPc = "append"
  /\ logsInWindow' = Append(logsInWindow, parsedLog.Timestamp)
  /\ ordered' = (ordered /\ InOrder(logsInWindow, parsedLog))
  /\ arrived' = Append(arrived, parsedLog.Timestamp)
  /\ mainPc' = "evict"
  /\ UNCHANGED <<flagVars, httpResponseCodes, sectionCounts, alerting, mutex, repVars,
                 parsedLog, delivered, ingested, alertingBefore, lastParse,
                 usedQps, inlineWindow, inlineFailed, inlineAlerting, queried>>

\* for len(s.logsInWindow) > 0 && s.getDelta() > 120.0 { pop }
MainEvict ==
  /\ Running /\ mainPc = "evict"
  /\ \/ /\ NeedsEvict(logsInWindow)
        /\ logsInWindow' = PopFront(logsInWindow)
        /\ mainPc' = "evict"
     \/ /\ ~NeedsEvict(logsInWindow)
        /\ logsInWindow' = logsInWindow
        /\ mainPc' = "alert"
  /\ UNCHANGED <<flagVars, httpResponseCodes, sectionCounts, alerting, mutex, repVars,
                 parsedLog, delivered, ingested, ordered, alertingBefore, lastParse,
                 histVars>>

MainAlert ==
  /\ Running /\ mainPc = "alert"
  /\ alerting' = AlertDecision(alerting, logsInWindow, qpsThreshold)
  /\ alertingBefore' = alerting
  /\ usedQps' = getQueryRate(logsInWindow)
  /\ mainPc' = "unlock"
  /\ UNCHANGED <<flagVars, httpResponseCodes, sectionCounts, logsInWindow, mutex,
                 repVars, parsedLog, delivered, ingested, ordered, lastParse,
                 arrived, inlineWindow, inlineFailed, inlineAlerting, queried>>

\* the loop body ending without mutex.Unlock()
MainUnlock_KeepsMutex ==
  /\ Running /\ mainPc = "unlock"
  /\ mutex' = mutex
  /\ ingested' = ingested + 1
  /\ mainPc' = "recv"
  /\ UNCHANGED <<flagVars, statsVars, repVars, parsedLog, delivered, ordered,
                 alertingBefore, lastParse, histVars>>

MainUnlock ==
  /\ Running /\ mainPc = "unlock"
  /\ mutex' = "free"
  /\ ingested' = ingested + 1
  /\ mainPc' = "recv"
  /\ UNCHANGED <<flagVars, statsVars, repVars, parsedLog, delivered, ordered,
                 alertingBefore, lastParse,
                 histVars>>

----------------------------------------------------------------------------
(* Reporter goroutine of main *)

\* alerting := s.alerting, before the loop and outside the mutex
ReporterStart ==
  /\ Running /\ repPc = "start"
  /\ repAlerting' = alerting
  /\ repPc' = "lock"
  /\ UNCHANGED <<flagVars, statsVars, mutex, mainVars, topListing, message,
                 seenPrev, seenCur, dumpedCounts,
                 printedQps>>

\* the reporter entering its report without waiting for the mutex
ReporterLock_NoWait ==
  /\ Running /\ repPc = "lock"
  /\ mutex' = "reporter"
  /\ repPc' = "dump"
  /\ UNCHANGED <<flagVars, statsVars, mainVars, repAlerting, topListing, message,
                 seenPrev, seenCur, dumpedCounts,
                 printedQps>>

ReporterLock ==
  /\ Running /\ repPc = "lock" /\ mutex = "free"
  /\ mutex' = "reporter"
  /\ repPc' = "dump"
  /\ UNCHANGED <<flagVars, statsVars, mainVars, repAlerting, topListing, message,
                 seenPrev, seenCur, dumpedCounts,
                 printedQps>>

\* the dump that starts the section counts afresh after printing them
ReporterDump_Consumes ==
  /\ Running /\ repPc = "dump"
  /\ topListing' \in dumpTopSections(sectionCounts, topN)
  /\ dumpedCounts' = sectionCounts
  /\ sectionCounts' = [k \in {} |-> 0]
  /\ repPc' = "diff"
  /\ UNCHANGED <<flagVars, httpResponseCodes, logsInWindow, alerting, mutex, mainVars,
                 repAlerting, message, seenPrev, seenCur, printedQps>>

\* s.dumpStats()
ReporterDump ==
  /\ Running /\ repPc = "dump"
  /\ topListing' \in dumpTopSections(sectionCounts, topN)
  /\ dumpedCounts' = sectionCounts
  /\ repPc' = "diff"
  /\ UNCHANGED <<flagVars, statsVars, mutex, mainVars, repAlerting, message,
                 seenPrev, seenCur,
                 printedQps>>

\* the two ifs that display changes in high-traffic alerting
transitionMessage(prev, cur) ==
  IF prev /\ ~cur THEN "recovered"
  ELSE IF ~prev /\ cur THEN "firing"
  ELSE "none"

ReporterDiff ==
  /\ Running /\ repPc = "diff"
  /\ message' = transitionMessage(repAlerting, alerting)
  /\ printedQps' = IF transitionMessage(repAlerting, alerting) = "firing"
                     THEN getQueryRate(logsInWindow) ELSE printedQps
  /\ seenPrev' = seenCur
  /\ seenCur' = (IF alerting THEN "true" ELSE "false")
  /\ repPc' = "unlock"
  /\ UNCHANGED <<flagVars, statsVars, mutex, mainVars, repAlerting, topListing,
                 dumpedCounts>>

\* mutex.Unlock(); time.Sleep(10 * time.Second)
ReporterUnlock ==
  /\ Running /\ repPc = "unlock"
  /\ mutex' = "free"
  /\ repPc' = "lock"
  /\ UNCHANGED <<flagVars, statsVars, mainVars, repAlerting, topListing, message,
                 seenPrev, seenCur, dumpedCounts,
                 printedQps>>

Next ==
  \/ \E line \in ConcLines : MainParse(line)
  \/ MainLock
  \/ MainIncCode
  \/ MainIncSection
  \/ MainAppend
  \/ MainEvict
  \/ MainAlert
  \/ MainUnlock
  \/ ReporterStart
  \/ ReporterLock
  \/ ReporterDump
  \/ ReporterDiff
  \/ ReporterUnlock

Spec == Init /\ [][Next]_vars

----------------------------------------------------------------------------
(* The monitor driven sequentially, one whole call per step, as the unit    *)
(* tests drive it                                                            *)

\* stats.updateStats(log), updateAlerting included
SeqUpdateStats(log) ==
  /\ ingested < MaxRecords
  /\ httpResponseCodes' = MapInc(httpResponseCodes, responseCode(log))
  /\ sectionCounts' = MapInc(sectionCounts, log.Section)
  /\ logsInWindow' = EvictLoop(Append(logsInWindow, log.Timestamp))
  /\ alerting' = AlertDecision(alerting, logsInWindow', qpsThreshold)
  /\ ordered' = (ordered /\ InOrder(logsInWindow, log))
  /\ alertingBefore' = alerting
  /\ usedQps' = getQueryRate(logsInWindow')
  /\ arrived' = Append(arrived, log.Timestamp)
  /\ inlineWindow' = IF inlineFailed THEN inlineWindow
                                     ELSE inlineUpdateAlerting(inlineWindow, log).w
  /\ inlineFailed' = (inlineFailed \/ inlineUpdateAlerting(inlineWindow, log).failed)
  /\ inlineAlerting' = IF inlineFailed' THEN inlineAlerting
                        ELSE inlineAlertDecision(inlineAlerting, inlineWindow', qpsThreshold)
  /\ queried' = queried
  /\ parsedLog' = log
  /\ ingested' = ingested + 1
  /\ UNCHANGED <<flagVars, mutex, mainPc, delivered, lastParse, repVars>>

\* stats.dumpStats()
SeqDumpStats ==
  /\ topListing' \in dumpTopSections(sectionCounts, topN)
  /\ dumpedCounts' = sectionCounts
  /\ UNCHANGED <<flagVars, statsVars, mutex, mainVars, repPc, repAlerting, message,
                 seenPrev, seenCur,
                 printedQps>>

InitSeq == InitWith({1, 2, DefaultQps}, {DefaultTopN})
NextSeq == \E log \in SeqRecords : SeqUpdateStats(log)
SpecSeq == InitSeq /\ [][NextSeq]_vars

InitTop == InitWith({DefaultQps}, 0..MaxTopN)
NextTop ==
  \/ \E log \in TopRecords : SeqUpdateStats(log)
  \/ SeqDumpStats
SpecTop == InitTop /\ [][NextTop]_vars

----------------------------------------------------------------------------
(* parseLogLine called on its own, as TestParseLogLine calls it *)

BadShape == [fmt |-> FALSE, valid |-> FALSE, instant |-> 0]   \* e.g. 9/May/2018

ParseLines ==
  {Line(ts, method, sec, st, sz) :
      ts \in {GoodTs(0), GoodTs(1), BadDate, BadShape},
      method \in {"GET", "POST", "PATCH"},
      sec \in {"/api", "/"},
      st \in {<<"0", "0", "0">>, <<"0", "9", "9">>, <<"1", "0", "0">>,
              <<"2", "0", "0">>, <<"5", "9", "9">>, <<"6", "0", "0">>,
              <<"9", "9", "9">>, <<"2", "0">>},
      sz \in {<<"-">>, <<"-", "5">>, <<"5", "-">>, <<"1", "2">>, <<"0">>}}

\* parsedLog, err := parseLogLine(line); a panic ends the run
ParseCall(line) ==
  /\ lastParse.outcome # "panic"
  /\ lastParse' = [called |-> TRUE, matched |-> logLineRegExp(line),
                   outcome |-> parseLogLine(line).outcome]
  /\ parsedLog' = parseLogLine(line).rec
  /\ UNCHANGED <<flagVars, statsVars, mutex, mainPc, delivered, ingested, ordered,
                 alertingBefore, repVars,
                 histVars>>

NextParse == \E line \in ParseLines : ParseCall(line)
SpecParse == Init /\ [][NextParse]_vars

----------------------------------------------------------------------------
(* updateStats on records of several status codes and sections *)

StatRecords ==
  Accepted({Line(GoodTs(0), "GET", sec, st, <<"5">>) :
              sec \in {"/api", "/report"},
              st \in {<<"2", "0", "0">>, <<"2", "0", "4">>, <<"4", "0", "4">>,
                      <<"0", "9", "9">>}})

NextStats == \E log \in StatRecords : SeqUpdateStats(log)
SpecStats == InitSeq /\ [][NextStats]_vars

----------------------------------------------------------------------------
(* The concurrent program under fair scheduling. Every statement of a      *)
(* running goroutine is eventually executed (weak fairness); sync.Mutex    *)
(* hands the lock to a goroutine that keeps waiting for it (starvation     *)
(* mode), so a Lock that is enabled again and again is eventually taken    *)
(* (strong fairness). Lines arrive or not as the log's writer decides.     *)

FairLines ==
  {Line(GoodTs(0), "GET", "/api", <<"2", "0", "0">>, <<"5">>),
   Line(GoodTs(1), "GET", "/report", <<"4", "0", "4">>, <<"5">>),
   Line(GoodTs(WindowSeconds + 1), "GET", "/api", <<"2", "0", "0">>, <<"-">>),
   Line(BadDate, "GET", "/api", <<"2", "0", "0">>, <<"5">>)}

InitFair == InitWith({DefaultQps}, {DefaultTopN})

NextFair ==
  \/ \E line \in FairLines : MainParse(line)
  \/ MainLock
  \/ MainIncCode
  \/ MainIncSection
  \/ MainAppend
  \/ MainEvict
  \/ MainAlert
  \/ MainUnlock
  \/ ReporterStart
  \/ ReporterLock
  \/ ReporterDump
  \/ ReporterDiff
  \/ ReporterUnlock

Fairness ==
  /\ SF_vars(MainLock)
  /\ WF_vars(MainIncCode)
  /\ WF_vars(MainIncSection)
  /\ WF_vars(MainAppend)
  /\ WF_vars(MainEvict)
  /\ WF_vars(MainAlert)
  /\ WF_vars(MainUnlock)
  /\ WF_vars(ReporterStart)
  /\ SF_vars(ReporterLock)
  /\ WF_vars(ReporterDump)
  /\ WF_vars(ReporterDiff)
  /\ WF_vars(ReporterUnlock)

SpecFair == InitFair /\ [][NextFair]_vars /\ Fairness

----------------------------------------------------------------------------
(* The two variants of updateAlerting and getQueryRate side by side: every  *)
(* record goes to both, and getQueryRate is called directly between         *)
(* records, as the unit tests call it                                       *)

\* qps, err := s.getQueryRate(): each variant on its own window
SeqGetQueryRate ==
  /\ queried' = [called |-> TRUE,
                 plusInf |-> getQueryRate(logsInWindow),
                 zero |-> inlineGetQueryRate(inlineWindow)]
  /\ UNCHANGED <<flagVars, statsVars, mutex, mainPc, parsedLog, delivered, ingested,
                 ordered, alertingBefore, lastParse, repVars, usedQps, arrived,
                 inlineWindow, inlineFailed, inlineAlerting>>

NextEquiv ==
  \/ \E log \in SeqRecords : SeqUpdateStats(log)
  \/ SeqGetQueryRate

SpecEquiv == InitSeq /\ [][NextEquiv]_vars

----------------------------------------------------------------------------
(* Properties *)

Evicted == ingested > Len(logsInWindow)

\* C1: after every updateStats on records arriving in non-decreasing
\* timestamp order, the window spans at most 120 s and every retained entry
\* is at most 120 s older than the newest one.
C1_WindowSpan ==
  (ordered /\ ingested > 0) =>
    /\ getDelta(logsInWindow) <= WindowSeconds
    /\ \A i \in 1..Len(logsInWindow) :
         logsInWindow[Len(logsInWindow)] - logsInWindow[i] <= WindowSeconds

C1_Witness ==
  /\ ordered /\ Evicted
  /\ Len(logsInWindow) >= 2
  /\ getDelta(logsInWindow) = WindowSeconds

\* C2: after an updateStats that leaves a window of positive span, the alert
\* flag is exactly (entries / span > threshold), strictly, whatever the flag
\* was before.
C2_StrictThreshold ==
  (ingested > 0 /\ getDelta(logsInWindow) > 0) =>
    (alerting <=> Len(logsInWindow) > qpsThreshold * getDelta(logsInWindow))

\* a rate exactly at the threshold clears a flag that was set
C2_Witness ==
  /\ ingested > 0 /\ getDelta(logsInWindow) > 0
  /\ Len(logsInWindow) = qpsThreshold * getDelta(logsInWindow)
  /\ alertingBefore /\ ~alerting

\* C3: an updateStats that leaves a single-entry window does not change the
\* alert flag.
C3_SingleEntryHolds ==
  (ingested > 0 /\ Len(logsInWindow) = 1) => alerting = alertingBefore

\* C4: the response-code histogram always has exactly the keys 1XX..5XX.
C4_FiveKeys == DOMAIN httpResponseCodes = FiveKeys

\* C5: for a line that does not match the grammar parseLogLine returns an
\* error value; it neither panics nor yields a record.
C5_MalformedIsError ==
  (lastParse.called /\ ~lastParse.matched) => lastParse.outcome = "error"

Reading == repPc \in {"dump", "diff", "unlock"}

\* C6: while the reporter reads for a report, no updateStats is under way:
\* the response-code counts and the section counts both sum to the number of
\* completed ingests, the window is within its 120 s span and the alert flag
\* is the one updateAlerting computes from that window.
C6_NoTornRead ==
  Reading =>
    /\ mutex = "reporter"
    /\ mainPc \in {"recv", "lock", "panicked"}
    /\ MapSum(httpResponseCodes) = ingested
    /\ MapSum(sectionCounts) = ingested
    /\ getDelta(logsInWindow) <= WindowSeconds
    /\ alerting = (ingested > 0 /\ RateExceeds(getQueryRate(logsInWindow), qpsThreshold))

\* the reporter reads while the ingestion loop waits for the mutex, after an
\* ingest that evicted
C6_Witness ==
  /\ repPc = "diff" /\ mainPc = "lock"
  /\ ingested >= 2 /\ Evicted
  /\ DOMAIN sectionCounts = {"/api", "/report"}

\* C7: a report that reads the same alert flag as the report before it
\* prints no transition message.
C7_MessageOnlyOnChange ==
  (seenPrev # "none" /\ seenPrev = seenCur) => message = "none"

\* C8: a report that reads alerting = false after a report that read
\* alerting = true prints the recovery message.
C8_RecoveryAnnounced ==
  (seenPrev = "true" /\ seenCur = "false") => message = "recovered"

Listed == {topListing[i] : i \in 1..Len(topListing)}

\* C9: the top-sections listing of n >= 0 has min(n, distinct sections)
\* entries, all different sections, in non-increasing order of count, and no
\* unlisted section has a larger count than a listed one.
C9_TopSections ==
  /\ Len(topListing) = Min(topN, Cardinality(DOMAIN dumpedCounts))
  /\ Listed \subseteq DOMAIN dumpedCounts
  /\ Cardinality(Listed) = Len(topListing)
  /\ \A i, j \in 1..Len(topListing) :
       i < j => dumpedCounts[topListing[i]] >= dumpedCounts[topListing[j]]
  /\ \A a \in Listed : \A b \in DOMAIN dumpedCounts \ Listed :
       dumpedCounts[a] >= dumpedCounts[b]

\* fewer entries listed than sections seen, the unlisted one with a smaller count
C9_Witness ==
  /\ topN = 2
  /\ Cardinality(DOMAIN dumpedCounts) = 3
  /\ Len(topListing) = 2
  /\ \E b \in DOMAIN dumpedCounts \ Listed : dumpedCounts[b] < dumpedCounts[topListing[2]]

\* C10: getQueryRate reports the empty window exactly when nothing was ever
\* ingested, and the alert flag of a fresh monitor is false.
C10_NoDataOnlyWhenFresh ==
  /\ getQueryRate(logsInWindow).err <=> (ingested = 0)
  /\ (ingested = 0) => ~alerting

\* an ingest that evicted everything older than the new record
C10_Witness ==
  /\ ingested >= 2 /\ Evicted
  /\ Len(logsInWindow) = 1
  /\ ~getQueryRate(logsInWindow).err


\* C11: every line parseLogLine accepts has a status code in 100..599.
C11_StatusInRange ==
  (lastParse.outcome = "record") => parsedLog.StatusCode \in 100..599

\* C12: every line parseLogLine accepts yields a Size that is not negative.
C12_SizeNonNegative ==
  (lastParse.outcome = "record") => parsedLog.Size >= 0


\* C13: for records arriving in non-decreasing timestamp order the window is,
\* after every updateStats, the contiguous tail of the arrival sequence made of
\* exactly the records at most 120 s older than the newest: an entry exactly
\* 120 s older is kept, an older one is gone.
C13_WindowIsTrailingSuffix ==
  (ordered /\ ingested > 0) =>
    LET n == Len(arrived)
        k == Len(logsInWindow)
    IN /\ 1 <= k /\ k <= n
       /\ logsInWindow = SubSeq(arrived, n - k + 1, n)
       /\ \A i \in 1..n : (i > n - k) <=> (arrived[i] >= arrived[n] - WindowSeconds)

\* the oldest retained entry is exactly 120 s old, the one before it was evicted
C13_Witness ==
  /\ ordered /\ Len(arrived) > Len(logsInWindow) /\ Len(logsInWindow) >= 2
  /\ logsInWindow[1] + WindowSeconds = logsInWindow[Len(logsInWindow)]
  /\ arrived[Len(arrived) - Len(logsInWindow)] + WindowSeconds
       < logsInWindow[Len(logsInWindow)]


Count(m, k) == IF k \in DOMAIN m THEN m[k] ELSE 0

\* the class named by the leading decimal digit of a status code below 1000
LeadingDigitKey(n) ==
  DigitChars[(IF n >= 100 THEN n \div 100 ELSE IF n >= 10 THEN n \div 10 ELSE n) + 1]
    \o "XX"

\* new is old with the counter of k raised by one and nothing else changed
OnlyIncrements(old, new, k) ==
  /\ DOMAIN new = DOMAIN old \cup {k}
  /\ new[k] = Count(old, k) + 1
  /\ \A x \in DOMAIN new \ {k} : new[x] = old[x]

\* C14: each updateStats raises by one the response-code counter of the
\* record's leading status digit and the counter of the record's section, and
\* changes no other counter; after k calls both maps sum to k.
C14_FrameEffect ==
  /\ [](MapSum(httpResponseCodes) = ingested /\ MapSum(sectionCounts) = ingested)
  /\ [][ingested' = ingested + 1 =>
          /\ OnlyIncrements(httpResponseCodes, httpResponseCodes',
                            LeadingDigitKey(parsedLog'.StatusCode))
          /\ OnlyIncrements(sectionCounts, sectionCounts', parsedLog'.Section)]_vars

\* a second record of class 2XX with another status code, both sections seen
C14_Witness ==
  /\ parsedLog.StatusCode = 204
  /\ Count(httpResponseCodes, "2XX") >= 2
  /\ Count(httpResponseCodes, "4XX") >= 1
  /\ Cardinality(DOMAIN sectionCounts) = 2


\* C15: updateAlerting cannot fail, whatever the order of the timestamps:
\* neither eviction loop indexes out of range, both end, and the window they
\* leave is not empty and ends with the record just ingested.
C15_UpdateAlertingNeverFails ==
  (ingested > 0) =>
    /\ Len(logsInWindow) > 0
    /\ logsInWindow[Len(logsInWindow)] = parsedLog.Timestamp
    /\ ~inlineFailed
    /\ Len(inlineWindow) > 0
    /\ inlineWindow[Len(inlineWindow)] = parsedLog.Timestamp

\* timestamps went backwards and a later record still evicted
C15_Witness ==
  /\ ~ordered /\ Evicted
  /\ \E i \in 1..(Len(logsInWindow) - 1) : logsInWindow[i] > logsInWindow[i + 1]


C17_FiringRateIsTriggeringRate ==
  /\ (repPc = "unlock" /\ message = "firing") =>
       /\ ~printedQps.err
       /\ RateExceeds(printedQps, qpsThreshold)
       /\ printedQps = usedQps
  /\ (mainPc \in {"recv", "lock", "panicked"} /\ ingested > 0 /\ alerting) =>
       RateExceeds(getQueryRate(logsInWindow), qpsThreshold)

\* "firing" printed with a finite rate, while the next line waits for the mutex
C17_Witness ==
  /\ repPc = "unlock" /\ message = "firing"
  /\ printedQps.den > 0
  /\ mainPc = "lock"


\* C18: the reads of a report change nothing in the monitor: no step taken
\* while the reporter is inside a report changes the response-code counts, the
\* section counts, the window or the alert flag.
C18_ReadsLeaveStatsAlone == [][Reading => statsVars' = statsVars]_vars

\* a second report finished over two sections
C18_Witness ==
  /\ repPc = "unlock" /\ seenPrev # "none"
  /\ Len(topListing) = 2
  /\ dumpedCounts = sectionCounts


InUpdateStats == mainPc \in {"codes", "sections", "append", "evict", "alert", "unlock"}

\* C19: dumping the same section counts again, with the same n, prints the
\* same sections in the same order.
C19_ListingDeterministic ==
  [][(ingested > 0 /\ dumpedCounts = sectionCounts
        /\ sectionCounts' = sectionCounts /\ dumpedCounts' = dumpedCounts)
       => topListing' = topListing]_vars

\* C20: whenever the reporter goroutine reads a field of the stats it holds
\* the mutex, its first read of the alert flag included, and the ingestion
\* loop is not inside updateStats.
C20_ReadsUnderMutex ==
  [][(repPc' # repPc /\ repPc \in {"start", "dump", "diff"})
       => (mutex = "reporter" /\ ~InUpdateStats)]_vars


\* C21: fed the same records from the same state, updateAlerting of
\* http_monitor.go (locals n and delta, delta recomputed after each pop) and
\* updateAlerting of the getDelta loop hold the same window and the same alert
\* flag after every ingest, in any timestamp order, and neither fails; the
\* getQueryRate returning 0.0 and the one returning +Inf on an empty window
\* report an error in the same calls and lead to the same alert flag.
C21_VariantsEquivalent ==
  /\ ~inlineFailed
  /\ inlineWindow = logsInWindow
  /\ inlineAlerting = alerting
  /\ queried.called => (queried.zero.err = queried.plusInf.err)
  /\ inlineAlertDecision(alerting, logsInWindow, qpsThreshold)
       = AlertDecision(alerting, logsInWindow, qpsThreshold)

\* getQueryRate was called on the empty window, where the two returned values
\* differ; since then records arrived out of order, one was evicted, two
\* retained ones are exactly 120 s apart, and the alert is on in both variants
C21_Witness ==
  /\ queried.called /\ queried.plusInf.err /\ queried.zero.err
  /\ queried.plusInf # queried.zero
  /\ ~ordered /\ Evicted
  /\ \E i, j \in 1..Len(inlineWindow) :
        i < j /\ inlineWindow[j] - inlineWindow[i] = WindowSeconds
  /\ alerting /\ inlineAlerting
  /\ inlineWindow = logsInWindow

====
